---- MODULE Spec2Model ----
(***************************************************************************)
(* Model of src/app.py: the bladder-cancer report scanner.                 *)
(*                                                                         *)
(* A Python str is the sequence of its code points; Str("text") writes one.   *)
(* The external NLP pipeline is a black box: a text is                     *)
(* carried together with the analysis (sentences, entities) the pipeline   *)
(* returns for it, so that nlp(text) is deterministic.                     *)
(***************************************************************************)
EXTENDS Integers, Sequences, FiniteSets, TLC

VARIABLES
    nlp_cache,      \* st.cache_resource entry of load_nlp
    loads,          \* how many times the body of load_nlp has run
    upload_type,    \* st.radio "Input source"
    pdf,            \* st.file_uploader of the PDF branch
    csv_file,       \* st.file_uploader of the CSV branch
    n,              \* st.slider "How many reports to process?"
    run,            \* what the last script run did and rendered
    prev_display,   \* display of the script run before the last one
    arg,            \* argument of a helper called on its own
    ret             \* its result

vars == <<nlp_cache, loads, upload_type, pdf, csv_file, n, run, prev_display, arg, ret>>

-----------------------------------------------------------------------------
(* Python str: a str is the sequence of its code points *)

\* the printable ASCII characters 32..95 and 97..126, to write a str as text
Printable1 == " !\"#$%&'()*+,-./0123456789:;<=>?@ABCDEFGHIJKLMNOPQRSTUVWXYZ[\\]^_"
Printable2 == "abcdefghijklmnopqrstuvwxyz{|}~"

\* ord(c) of the characters a literal of this module can hold
CodePoint ==
    [c \in {SubSeq(Printable1, i, i) : i \in 1..Len(Printable1)}
           \cup {SubSeq(Printable2, i, i) : i \in 1..Len(Printable2)}
           \cup {"\t", "\n", "\f", "\r"} |->
        CASE c = "\t" -> 9
          [] c = "\n" -> 10
          [] c = "\f" -> 12
          [] c = "\r" -> 13
          [] \E i \in 1..Len(Printable1) : SubSeq(Printable1, i, i) = c ->
                31 + (CHOOSE i \in 1..Len(Printable1) : SubSeq(Printable1, i, i) = c)
          [] OTHER -> 96 + (CHOOSE i \in 1..Len(Printable2) : SubSeq(Printable2, i, i) = c)]

\* the str written as the literal text
Str(text) == [i \in 1..Len(text) |-> CodePoint[SubSeq(text, i, i)]]

\* the characters of a literal, as a set
Cls(text) == {CodePoint[SubSeq(text, i, i)] : i \in 1..Len(text)}

Char(s, i) == s[i]

\* the non-ASCII characters whose lowercase is one other character: every
\* step-th code point of lo..hi maps to itself plus delta, <<lo, hi, step, delta>>
LowerRanges ==
    {
     <<65, 90, 1, 32>>, <<192, 214, 1, 32>>, <<216, 222, 1, 32>>, <<256, 302, 2, 1>>,
     <<306, 310, 2, 1>>, <<313, 327, 2, 1>>, <<330, 374, 2, 1>>, <<376, 376, 1, -121>>,
     <<377, 381, 2, 1>>, <<385, 385, 1, 210>>, <<386, 388, 2, 1>>, <<390, 390, 1, 206>>,
     <<391, 391, 1, 1>>, <<393, 394, 1, 205>>, <<395, 395, 1, 1>>, <<398, 398, 1, 79>>,
     <<399, 399, 1, 202>>, <<400, 400, 1, 203>>, <<401, 401, 1, 1>>, <<403, 403, 1, 205>>,
     <<404, 404, 1, 207>>, <<406, 406, 1, 211>>, <<407, 407, 1, 209>>, <<408, 408, 1, 1>>,
     <<412, 412, 1, 211>>, <<413, 413, 1, 213>>, <<415, 415, 1, 214>>, <<416, 420, 2, 1>>,
     <<422, 422, 1, 218>>, <<423, 423, 1, 1>>, <<425, 425, 1, 218>>, <<428, 428, 1, 1>>,
     <<430, 430, 1, 218>>, <<431, 431, 1, 1>>, <<433, 434, 1, 217>>, <<435, 437, 2, 1>>,
     <<439, 439, 1, 219>>, <<440, 440, 1, 1>>, <<444, 444, 1, 1>>, <<452, 452, 1, 2>>,
     <<453, 453, 1, 1>>, <<455, 455, 1, 2>>, <<456, 456, 1, 1>>, <<458, 458, 1, 2>>,
     <<459, 475, 2, 1>>, <<478, 494, 2, 1>>, <<497, 497, 1, 2>>, <<498, 500, 2, 1>>,
     <<502, 502, 1, -97>>, <<503, 503, 1, -56>>, <<504, 542, 2, 1>>, <<544, 544, 1, -130>>,
     <<546, 562, 2, 1>>, <<570, 570, 1, 10795>>, <<571, 571, 1, 1>>, <<573, 573, 1, -163>>,
     <<574, 574, 1, 10792>>, <<577, 577, 1, 1>>, <<579, 579, 1, -195>>, <<580, 580, 1, 69>>,
     <<581, 581, 1, 71>>, <<582, 590, 2, 1>>, <<880, 882, 2, 1>>, <<886, 886, 1, 1>>,
     <<895, 895, 1, 116>>, <<902, 902, 1, 38>>, <<904, 906, 1, 37>>, <<908, 908, 1, 64>>,
     <<910, 911, 1, 63>>, <<913, 929, 1, 32>>, <<932, 939, 1, 32>>, <<975, 975, 1, 8>>,
     <<984, 1006, 2, 1>>, <<1012, 1012, 1, -60>>, <<1015, 1015, 1, 1>>, <<1017, 1017, 1, -7>>,
     <<1018, 1018, 1, 1>>, <<1021, 1023, 1, -130>>, <<1024, 1039, 1, 80>>, <<1040, 1071, 1, 32>>,
     <<1120, 1152, 2, 1>>, <<1162, 1214, 2, 1>>, <<1216, 1216, 1, 15>>, <<1217, 1229, 2, 1>>,
     <<1232, 1326, 2, 1>>, <<1329, 1366, 1, 48>>, <<4256, 4293, 1, 7264>>, <<4295, 4295, 1, 7264>>,
     <<4301, 4301, 1, 7264>>, <<5024, 5103, 1, 38864>>, <<5104, 5109, 1, 8>>, <<7312, 7354, 1, -3008>>,
     <<7357, 7359, 1, -3008>>, <<7680, 7828, 2, 1>>, <<7838, 7838, 1, -7615>>, <<7840, 7934, 2, 1>>,
     <<7944, 7951, 1, -8>>, <<7960, 7965, 1, -8>>, <<7976, 7983, 1, -8>>, <<7992, 7999, 1, -8>>,
     <<8008, 8013, 1, -8>>, <<8025, 8031, 2, -8>>, <<8040, 8047, 1, -8>>, <<8072, 8079, 1, -8>>,
     <<8088, 8095, 1, -8>>, <<8104, 8111, 1, -8>>, <<8120, 8121, 1, -8>>, <<8122, 8123, 1, -74>>,
     <<8124, 8124, 1, -9>>, <<8136, 8139, 1, -86>>, <<8140, 8140, 1, -9>>, <<8152, 8153, 1, -8>>,
     <<8154, 8155, 1, -100>>, <<8168, 8169, 1, -8>>, <<8170, 8171, 1, -112>>, <<8172, 8172, 1, -7>>,
     <<8184, 8185, 1, -128>>, <<8186, 8187, 1, -126>>, <<8188, 8188, 1, -9>>, <<8486, 8486, 1, -7517>>,
     <<8490, 8490, 1, -8383>>, <<8491, 8491, 1, -8262>>, <<8498, 8498, 1, 28>>, <<8544, 8559, 1, 16>>,
     <<8579, 8579, 1, 1>>, <<9398, 9423, 1, 26>>, <<11264, 11311, 1, 48>>, <<11360, 11360, 1, 1>>,
     <<11362, 11362, 1, -10743>>, <<11363, 11363, 1, -3814>>, <<11364, 11364, 1, -10727>>, <<11367, 11371, 2, 1>>,
     <<11373, 11373, 1, -10780>>, <<11374, 11374, 1, -10749>>, <<11375, 11375, 1, -10783>>, <<11376, 11376, 1, -10782>>,
     <<11378, 11378, 1, 1>>, <<11381, 11381, 1, 1>>, <<11390, 11391, 1, -10815>>, <<11392, 11490, 2, 1>>,
     <<11499, 11501, 2, 1>>, <<11506, 11506, 1, 1>>, <<42560, 42604, 2, 1>>, <<42624, 42650, 2, 1>>,
     <<42786, 42798, 2, 1>>, <<42802, 42862, 2, 1>>, <<42873, 42875, 2, 1>>, <<42877, 42877, 1, -35332>>,
     <<42878, 42886, 2, 1>>, <<42891, 42891, 1, 1>>, <<42893, 42893, 1, -42280>>, <<42896, 42898, 2, 1>>,
     <<42902, 42920, 2, 1>>, <<42922, 42922, 1, -42308>>, <<42923, 42923, 1, -42319>>, <<42924, 42924, 1, -42315>>,
     <<42925, 42925, 1, -42305>>, <<42926, 42926, 1, -42308>>, <<42928, 42928, 1, -42258>>, <<42929, 42929, 1, -42282>>,
     <<42930, 42930, 1, -42261>>, <<42931, 42931, 1, 928>>, <<42932, 42946, 2, 1>>, <<42948, 42948, 1, -48>>,
     <<42949, 42949, 1, -42307>>, <<42950, 42950, 1, -35384>>, <<42951, 42953, 2, 1>>, <<42960, 42960, 1, 1>>,
     <<42966, 42968, 2, 1>>, <<42997, 42997, 1, 1>>, <<65313, 65338, 1, 32>>, <<66560, 66599, 1, 40>>,
     <<66736, 66771, 1, 40>>, <<66928, 66938, 1, 39>>, <<66940, 66954, 1, 39>>, <<66956, 66962, 1, 39>>,
     <<66964, 66965, 1, 39>>, <<68736, 68786, 1, 64>>, <<71840, 71871, 1, 32>>, <<93760, 93791, 1, 32>>,
     <<125184, 125217, 1, 34>>
    }

\* the characters with the property Case_Ignorable, <<lo, hi>>
CaseIgnorableRanges ==
    {
     <<39, 39>>, <<46, 46>>, <<58, 58>>, <<94, 94>>, <<96, 96>>, <<168, 168>>,
     <<173, 173>>, <<175, 175>>, <<180, 180>>, <<183, 184>>, <<688, 879>>, <<884, 885>>,
     <<890, 890>>, <<900, 901>>, <<903, 903>>, <<1155, 1161>>, <<1369, 1369>>, <<1375, 1375>>,
     <<1425, 1469>>, <<1471, 1471>>, <<1473, 1474>>, <<1476, 1477>>, <<1479, 1479>>, <<1524, 1524>>,
     <<1536, 1541>>, <<1552, 1562>>, <<1564, 1564>>, <<1600, 1600>>, <<1611, 1631>>, <<1648, 1648>>,
     <<1750, 1757>>, <<1759, 1768>>, <<1770, 1773>>, <<1807, 1807>>, <<1809, 1809>>, <<1840, 1866>>,
     <<1958, 1968>>, <<2027, 2037>>, <<2042, 2042>>, <<2045, 2045>>, <<2070, 2093>>, <<2137, 2139>>,
     <<2184, 2184>>, <<2192, 2193>>, <<2200, 2207>>, <<2249, 2306>>, <<2362, 2362>>, <<2364, 2364>>,
     <<2369, 2376>>, <<2381, 2381>>, <<2385, 2391>>, <<2402, 2403>>, <<2417, 2417>>, <<2433, 2433>>,
     <<2492, 2492>>, <<2497, 2500>>, <<2509, 2509>>, <<2530, 2531>>, <<2558, 2558>>, <<2561, 2562>>,
     <<2620, 2620>>, <<2625, 2626>>, <<2631, 2632>>, <<2635, 2637>>, <<2641, 2641>>, <<2672, 2673>>,
     <<2677, 2677>>, <<2689, 2690>>, <<2748, 2748>>, <<2753, 2757>>, <<2759, 2760>>, <<2765, 2765>>,
     <<2786, 2787>>, <<2810, 2815>>, <<2817, 2817>>, <<2876, 2876>>, <<2879, 2879>>, <<2881, 2884>>,
     <<2893, 2893>>, <<2901, 2902>>, <<2914, 2915>>, <<2946, 2946>>, <<3008, 3008>>, <<3021, 3021>>,
     <<3072, 3072>>, <<3076, 3076>>, <<3132, 3132>>, <<3134, 3136>>, <<3142, 3144>>, <<3146, 3149>>,
     <<3157, 3158>>, <<3170, 3171>>, <<3201, 3201>>, <<3260, 3260>>, <<3263, 3263>>, <<3270, 3270>>,
     <<3276, 3277>>, <<3298, 3299>>, <<3328, 3329>>, <<3387, 3388>>, <<3393, 3396>>, <<3405, 3405>>,
     <<3426, 3427>>, <<3457, 3457>>, <<3530, 3530>>, <<3538, 3540>>, <<3542, 3542>>, <<3633, 3633>>,
     <<3636, 3642>>, <<3654, 3662>>, <<3761, 3761>>, <<3764, 3772>>, <<3782, 3782>>, <<3784, 3789>>,
     <<3864, 3865>>, <<3893, 3893>>, <<3895, 3895>>, <<3897, 3897>>, <<3953, 3966>>, <<3968, 3972>>,
     <<3974, 3975>>, <<3981, 3991>>, <<3993, 4028>>, <<4038, 4038>>, <<4141, 4144>>, <<4146, 4151>>,
     <<4153, 4154>>, <<4157, 4158>>, <<4184, 4185>>, <<4190, 4192>>, <<4209, 4212>>, <<4226, 4226>>,
     <<4229, 4230>>, <<4237, 4237>>, <<4253, 4253>>, <<4348, 4348>>, <<4957, 4959>>, <<5906, 5908>>,
     <<5938, 5939>>, <<5970, 5971>>, <<6002, 6003>>, <<6068, 6069>>, <<6071, 6077>>, <<6086, 6086>>,
     <<6089, 6099>>, <<6103, 6103>>, <<6109, 6109>>, <<6155, 6159>>, <<6211, 6211>>, <<6277, 6278>>,
     <<6313, 6313>>, <<6432, 6434>>, <<6439, 6440>>, <<6450, 6450>>, <<6457, 6459>>, <<6679, 6680>>,
     <<6683, 6683>>, <<6742, 6742>>, <<6744, 6750>>, <<6752, 6752>>, <<6754, 6754>>, <<6757, 6764>>,
     <<6771, 6780>>, <<6783, 6783>>, <<6823, 6823>>, <<6832, 6862>>, <<6912, 6915>>, <<6964, 6964>>,
     <<6966, 6970>>, <<6972, 6972>>, <<6978, 6978>>, <<7019, 7027>>, <<7040, 7041>>, <<7074, 7077>>,
     <<7080, 7081>>, <<7083, 7085>>, <<7142, 7142>>, <<7144, 7145>>, <<7149, 7149>>, <<7151, 7153>>,
     <<7212, 7219>>, <<7222, 7223>>, <<7288, 7293>>, <<7376, 7378>>, <<7380, 7392>>, <<7394, 7400>>,
     <<7405, 7405>>, <<7412, 7412>>, <<7416, 7417>>, <<7468, 7530>>, <<7544, 7544>>, <<7579, 7679>>,
     <<8125, 8125>>, <<8127, 8129>>, <<8141, 8143>>, <<8157, 8159>>, <<8173, 8175>>, <<8189, 8190>>,
     <<8203, 8207>>, <<8216, 8217>>, <<8228, 8228>>, <<8231, 8231>>, <<8234, 8238>>, <<8288, 8292>>,
     <<8294, 8303>>, <<8305, 8305>>, <<8319, 8319>>, <<8336, 8348>>, <<8400, 8432>>, <<11388, 11389>>,
     <<11503, 11505>>, <<11631, 11631>>, <<11647, 11647>>, <<11744, 11775>>, <<11823, 11823>>, <<12293, 12293>>,
     <<12330, 12333>>, <<12337, 12341>>, <<12347, 12347>>, <<12441, 12446>>, <<12540, 12542>>, <<40981, 40981>>,
     <<42232, 42237>>, <<42508, 42508>>, <<42607, 42610>>, <<42612, 42621>>, <<42623, 42623>>, <<42652, 42655>>,
     <<42736, 42737>>, <<42752, 42785>>, <<42864, 42864>>, <<42888, 42890>>, <<42994, 42996>>, <<43000, 43001>>,
     <<43010, 43010>>, <<43014, 43014>>, <<43019, 43019>>, <<43045, 43046>>, <<43052, 43052>>, <<43204, 43205>>,
     <<43232, 43249>>, <<43263, 43263>>, <<43302, 43309>>, <<43335, 43345>>, <<43392, 43394>>, <<43443, 43443>>,
     <<43446, 43449>>, <<43452, 43453>>, <<43471, 43471>>, <<43493, 43494>>, <<43561, 43566>>, <<43569, 43570>>,
     <<43573, 43574>>, <<43587, 43587>>, <<43596, 43596>>, <<43632, 43632>>, <<43644, 43644>>, <<43696, 43696>>,
     <<43698, 43700>>, <<43703, 43704>>, <<43710, 43711>>, <<43713, 43713>>, <<43741, 43741>>, <<43756, 43757>>,
     <<43763, 43764>>, <<43766, 43766>>, <<43867, 43871>>, <<43881, 43883>>, <<44005, 44005>>, <<44008, 44008>>,
     <<44013, 44013>>, <<64286, 64286>>, <<64434, 64450>>, <<65024, 65039>>, <<65043, 65043>>, <<65056, 65071>>,
     <<65106, 65106>>, <<65109, 65109>>, <<65279, 65279>>, <<65287, 65287>>, <<65294, 65294>>, <<65306, 65306>>,
     <<65342, 65342>>, <<65344, 65344>>, <<65392, 65392>>, <<65438, 65439>>, <<65507, 65507>>, <<65529, 65531>>,
     <<66045, 66045>>, <<66272, 66272>>, <<66422, 66426>>, <<67456, 67461>>, <<67463, 67504>>, <<67506, 67514>>,
     <<68097, 68099>>, <<68101, 68102>>, <<68108, 68111>>, <<68152, 68154>>, <<68159, 68159>>, <<68325, 68326>>,
     <<68900, 68903>>, <<69291, 69292>>, <<69446, 69456>>, <<69506, 69509>>, <<69633, 69633>>, <<69688, 69702>>,
     <<69744, 69744>>, <<69747, 69748>>, <<69759, 69761>>, <<69811, 69814>>, <<69817, 69818>>, <<69821, 69821>>,
     <<69826, 69826>>, <<69837, 69837>>, <<69888, 69890>>, <<69927, 69931>>, <<69933, 69940>>, <<70003, 70003>>,
     <<70016, 70017>>, <<70070, 70078>>, <<70089, 70092>>, <<70095, 70095>>, <<70191, 70193>>, <<70196, 70196>>,
     <<70198, 70199>>, <<70206, 70206>>, <<70367, 70367>>, <<70371, 70378>>, <<70400, 70401>>, <<70459, 70460>>,
     <<70464, 70464>>, <<70502, 70508>>, <<70512, 70516>>, <<70712, 70719>>, <<70722, 70724>>, <<70726, 70726>>,
     <<70750, 70750>>, <<70835, 70840>>, <<70842, 70842>>, <<70847, 70848>>, <<70850, 70851>>, <<71090, 71093>>,
     <<71100, 71101>>, <<71103, 71104>>, <<71132, 71133>>, <<71219, 71226>>, <<71229, 71229>>, <<71231, 71232>>,
     <<71339, 71339>>, <<71341, 71341>>, <<71344, 71349>>, <<71351, 71351>>, <<71453, 71455>>, <<71458, 71461>>,
     <<71463, 71467>>, <<71727, 71735>>, <<71737, 71738>>, <<71995, 71996>>, <<71998, 71998>>, <<72003, 72003>>,
     <<72148, 72151>>, <<72154, 72155>>, <<72160, 72160>>, <<72193, 72202>>, <<72243, 72248>>, <<72251, 72254>>,
     <<72263, 72263>>, <<72273, 72278>>, <<72281, 72283>>, <<72330, 72342>>, <<72344, 72345>>, <<72752, 72758>>,
     <<72760, 72765>>, <<72767, 72767>>, <<72850, 72871>>, <<72874, 72880>>, <<72882, 72883>>, <<72885, 72886>>,
     <<73009, 73014>>, <<73018, 73018>>, <<73020, 73021>>, <<73023, 73029>>, <<73031, 73031>>, <<73104, 73105>>,
     <<73109, 73109>>, <<73111, 73111>>, <<73459, 73460>>, <<78896, 78904>>, <<92912, 92916>>, <<92976, 92982>>,
     <<92992, 92995>>, <<94031, 94031>>, <<94095, 94111>>, <<94176, 94177>>, <<94179, 94180>>, <<110576, 110579>>,
     <<110581, 110587>>, <<110589, 110590>>, <<113821, 113822>>, <<113824, 113827>>, <<118528, 118573>>, <<118576, 118598>>,
     <<119143, 119145>>, <<119155, 119170>>, <<119173, 119179>>, <<119210, 119213>>, <<119362, 119364>>, <<121344, 121398>>,
     <<121403, 121452>>, <<121461, 121461>>, <<121476, 121476>>, <<121499, 121503>>, <<121505, 121519>>, <<122880, 122886>>,
     <<122888, 122904>>, <<122907, 122913>>, <<122915, 122916>>, <<122918, 122922>>, <<123184, 123197>>, <<123566, 123566>>,
     <<123628, 123631>>, <<125136, 125142>>, <<125252, 125259>>, <<127995, 127999>>, <<917505, 917505>>, <<917536, 917631>>,
     <<917760, 917999>>
    }

\* the characters with the property Cased that are not Case_Ignorable, <<lo, hi>>
\* (whether a Case_Ignorable character is cased is never asked)
CasedRanges ==
    {
     <<65, 90>>, <<97, 122>>, <<170, 170>>, <<181, 181>>, <<186, 186>>, <<192, 214>>,
     <<216, 246>>, <<248, 442>>, <<444, 447>>, <<452, 659>>, <<661, 687>>, <<880, 883>>,
     <<886, 887>>, <<891, 893>>, <<895, 895>>, <<902, 902>>, <<904, 906>>, <<908, 908>>,
     <<910, 929>>, <<931, 1013>>, <<1015, 1153>>, <<1162, 1327>>, <<1329, 1366>>, <<1376, 1416>>,
     <<4256, 4293>>, <<4295, 4295>>, <<4301, 4301>>, <<4304, 4346>>, <<4349, 4351>>, <<5024, 5109>>,
     <<5112, 5117>>, <<7296, 7304>>, <<7312, 7354>>, <<7357, 7359>>, <<7424, 7467>>, <<7531, 7543>>,
     <<7545, 7578>>, <<7680, 7957>>, <<7960, 7965>>, <<7968, 8005>>, <<8008, 8013>>, <<8016, 8023>>,
     <<8025, 8025>>, <<8027, 8027>>, <<8029, 8029>>, <<8031, 8061>>, <<8064, 8116>>, <<8118, 8124>>,
     <<8126, 8126>>, <<8130, 8132>>, <<8134, 8140>>, <<8144, 8147>>, <<8150, 8155>>, <<8160, 8172>>,
     <<8178, 8180>>, <<8182, 8188>>, <<8450, 8450>>, <<8455, 8455>>, <<8458, 8467>>, <<8469, 8469>>,
     <<8473, 8477>>, <<8484, 8484>>, <<8486, 8486>>, <<8488, 8488>>, <<8490, 8493>>, <<8495, 8500>>,
     <<8505, 8505>>, <<8508, 8511>>, <<8517, 8521>>, <<8526, 8526>>, <<8544, 8575>>, <<8579, 8580>>,
     <<9398, 9449>>, <<11264, 11387>>, <<11390, 11492>>, <<11499, 11502>>, <<11506, 11507>>, <<11520, 11557>>,
     <<11559, 11559>>, <<11565, 11565>>, <<42560, 42605>>, <<42624, 42651>>, <<42786, 42863>>, <<42865, 42887>>,
     <<42891, 42894>>, <<42896, 42954>>, <<42960, 42961>>, <<42963, 42963>>, <<42965, 42969>>, <<42997, 42998>>,
     <<43002, 43002>>, <<43824, 43866>>, <<43872, 43880>>, <<43888, 43967>>, <<64256, 64262>>, <<64275, 64279>>,
     <<65313, 65338>>, <<65345, 65370>>, <<66560, 66639>>, <<66736, 66771>>, <<66776, 66811>>, <<66928, 66938>>,
     <<66940, 66954>>, <<66956, 66962>>, <<66964, 66965>>, <<66967, 66977>>, <<66979, 66993>>, <<66995, 67001>>,
     <<67003, 67004>>, <<68736, 68786>>, <<68800, 68850>>, <<71840, 71903>>, <<93760, 93823>>, <<119808, 119892>>,
     <<119894, 119964>>, <<119966, 119967>>, <<119970, 119970>>, <<119973, 119974>>, <<119977, 119980>>, <<119982, 119993>>,
     <<119995, 119995>>, <<119997, 120003>>, <<120005, 120069>>, <<120071, 120074>>, <<120077, 120084>>, <<120086, 120092>>,
     <<120094, 120121>>, <<120123, 120126>>, <<120128, 120132>>, <<120134, 120134>>, <<120138, 120144>>, <<120146, 120485>>,
     <<120488, 120512>>, <<120514, 120538>>, <<120540, 120570>>, <<120572, 120596>>, <<120598, 120628>>, <<120630, 120654>>,
     <<120656, 120686>>, <<120688, 120712>>, <<120714, 120744>>, <<120746, 120770>>, <<120772, 120779>>, <<122624, 122633>>,
     <<122635, 122654>>, <<125184, 125251>>, <<127280, 127305>>, <<127312, 127337>>, <<127344, 127369>>
    }

IsCaseIgnorable(c) == \E r \in CaseIgnorableRanges : r[1] <= c /\ c <= r[2]
IsCased(c) == \E r \in CasedRanges : r[1] <= c /\ c <= r[2]

\* str.lower() on an ASCII character
AsciiLower(c) == IF c \in 65..90 THEN c + 32 ELSE c

\* the full lowercase mapping of one character other than capital sigma
LowerChar(c) ==
    IF c < 128 THEN <<AsciiLower(c)>>
    ELSE IF c = 304 THEN <<105, 775>>
    ELSE IF \E r \in LowerRanges : r[1] <= c /\ c <= r[2] /\ (c - r[1]) % r[3] = 0
         THEN <<c + (CHOOSE r \in LowerRanges :
                        r[1] <= c /\ c <= r[2] /\ (c - r[1]) % r[3] = 0)[4]>>
         ELSE <<c>>

\* the nearest position at or before j (at or after j) whose character is not
\* Case_Ignorable; 0 (Len(s) + 1) when there is none
RECURSIVE SkipBack(_, _)
SkipBack(s, j) == IF j >= 1 /\ IsCaseIgnorable(s[j]) THEN SkipBack(s, j - 1) ELSE j

RECURSIVE SkipForward(_, _)
SkipForward(s, j) == IF j <= Len(s) /\ IsCaseIgnorable(s[j]) THEN SkipForward(s, j + 1) ELSE j

\* the capital sigma at i ends a word: a cased character before it, none after
FinalSigma(s, i) ==
    LET b == SkipBack(s, i - 1)
        f == SkipForward(s, i + 1)
    IN  /\ b >= 1 /\ IsCased(s[b])
        /\ f > Len(s) \/ ~IsCased(s[f])

RECURSIVE LowerFrom(_, _)
LowerFrom(s, i) ==
    IF i > Len(s) THEN <<>>
    ELSE (IF s[i] = 931 THEN <<IF FinalSigma(s, i) THEN 962 ELSE 963>> ELSE LowerChar(s[i]))
         \o LowerFrom(s, i + 1)

\* str.lower()
lower(s) == LowerFrom(s, 1)

\* k in s  (substring test)
In(k, s) == \E i \in 0..(Len(s) - Len(k)) : SubSeq(s, i + 1, i + Len(k)) = k

\* the characters str.isspace(), str.strip() and re's \s take for whitespace
Whitespace ==
    {9, 10, 11, 12, 13, 28, 29, 30, 31, 32, 133, 160, 5760, 8192, 8193, 8194, 8195, 8196, 8197, 8198, 8199, 8200, 8201, 8202, 8232, 8233, 8239, 8287, 12288}

IsSpace(c) == c \in Whitespace

RECURSIVE lstrip(_)
lstrip(s) == IF Len(s) > 0 /\ IsSpace(Char(s, 1)) THEN lstrip(SubSeq(s, 2, Len(s))) ELSE s

RECURSIVE rstrip(_)
rstrip(s) == IF Len(s) > 0 /\ IsSpace(Char(s, Len(s))) THEN rstrip(SubSeq(s, 1, Len(s) - 1)) ELSE s

\* str.strip()
strip(s) == rstrip(lstrip(s))

\* sep.join(parts)
RECURSIVE join(_, _)
join(sep, parts) ==
    IF Len(parts) = 0 THEN <<>>
    ELSE IF Len(parts) = 1 THEN parts[1]
    ELSE parts[1] \o sep \o join(sep, Tail(parts))

-----------------------------------------------------------------------------
(* Keywords and patterns *)

BLADDER_KWS ==
    <<Str("bladder"), Str("urothelial"), Str("urinary"), Str("ureter"), Str("transitional cell carcinoma")>>
RECUR_KWS ==
    <<Str("recurrence"), Str("recurrent"), Str("metastasis"), Str("residual"), Str("local invasion"), Str("tumor")>>

-----------------------------------------------------------------------------
(* sentence_hits *)

\* any(k in s.text.lower() for k in keywords)
AnyKeyword_all(s, keywords) ==
    LET low == lower(s) IN \A j \in 1..Len(keywords) : In(keywords[j], low)
AnyKeyword(s, keywords) ==
    LET low == lower(s) IN \E j \in 1..Len(keywords) : In(keywords[j], low)

RECURSIVE HitsFrom(_, _, _)
HitsFrom(sents, keywords, i) ==
    IF i > Len(sents) THEN <<>>
    ELSE IF AnyKeyword(sents[i], keywords)
         THEN <<strip(sents[i])>> \o HitsFrom(sents, keywords, i + 1)
         ELSE HitsFrom(sents, keywords, i + 1)

sentence_hits(doc, keywords) == HitsFrom(doc.sents, keywords, 1)

-----------------------------------------------------------------------------
(* regex_hits *)

Punct == Cls(".!?")
D04 == Cls("01234")
D03 == Cls("0123")
D01 == Cls("01")

\* A pattern is the sequence of its character classes.
REGEX_PATTERNS ==
    << <<Cls("T"), D04, Cls("N"), D03, Cls("M"), D01>>, <<Cls("p"), Cls("T"), D04>> >>

\* last index of the run of whitespace that starts at i
RECURSIVE SpaceRunEnd(_, _)
SpaceRunEnd(text, i) ==
    IF i < Len(text) /\ IsSpace(Char(text, i + 1)) THEN SpaceRunEnd(text, i + 1) ELSE i

\* re.split(r"(?<=[.!?])\s+", text): start is where the current piece begins,
\* i where the next match is looked for
RECURSIVE SplitFrom(_, _, _)
SplitFrom(text, start, i) ==
    IF i > Len(text) THEN <<SubSeq(text, start, Len(text))>>
    ELSE IF i > 1 /\ Char(text, i - 1) \in Punct /\ IsSpace(Char(text, i))
         THEN <<SubSeq(text, start, i - 1)>>
              \o SplitFrom(text, SpaceRunEnd(text, i) + 1, SpaceRunEnd(text, i) + 1)
         ELSE SplitFrom(text, start, i + 1)

re_split(text) == SplitFrom(text, 1, 1)

\* one character against one class under re.I: the letters and digits of
\* REGEX_PATTERNS have no case variant outside ASCII
ClassMatch_cased(class, c) == c \in class
ClassMatch(class, c) == AsciiLower(c) \in {AsciiLower(x) : x \in class}

\* p.search(s) is not None
search(p, s) ==
    \E i \in 1..(Len(s) - Len(p) + 1) :
        \A j \in 1..Len(p) : ClassMatch(p[j], Char(s, i + j - 1))

RECURSIVE RegexHitsFrom(_, _, _)
RegexHitsFrom(sentences, compiled, i) ==
    IF i > Len(sentences) THEN <<>>
    ELSE IF \E k \in 1..Len(compiled) : search(compiled[k], sentences[i])
         THEN <<sentences[i]>> \o RegexHitsFrom(sentences, compiled, i + 1)
         ELSE RegexHitsFrom(sentences, compiled, i + 1)

regex_hits(text, patterns) == RegexHitsFrom(re_split(text), patterns, 1)

-----------------------------------------------------------------------------
(* extract_text_from_pdf *)

\* A page is [none |-> extract_text() returned None, str |-> the text otherwise].
\* p.extract_text() or ""
PageText(p) == IF p.none \/ p.str = <<>> THEN <<>> ELSE p.str

\* pages that yield no text are left out of the list
extract_text_from_pdf_skip(file) ==
    IF ~file.opens THEN [exc |-> "PDFSyntaxError", val |-> <<>>]
    ELSE [exc |-> "",
          val |-> join(Str("\n"), SelectSeq([i \in 1..Len(file.pages) |-> PageText(file.pages[i])],
                                          LAMBDA t : t # <<>>))]

\* A result is [exc |-> the exception raised or "", val |-> the value returned].
Ok(v) == [exc |-> "", val |-> v]
Raise(e) == [exc |-> e, val |-> <<>>]

extract_text_from_pdf(file) ==
    IF ~file.opens THEN Raise("PDFSyntaxError")
    ELSE Ok(join(Str("\n"), [i \in 1..Len(file.pages) |-> PageText(file.pages[i])]))

-----------------------------------------------------------------------------
(* umls_table *)

\* linker.kb.cui_to_entity
cui_to_entity ==
    [c \in {"C0005684", "C0027651"} |->
        IF c = "C0005684"
        THEN [preferred_name |-> Str("Malignant neoplasm of urinary bladder"), types |-> <<Str("T191")>>]
        ELSE [preferred_name |-> Str("Neoplasms"), types |-> <<Str("T191"), Str("T047")>>]]

\* the scores k/10000 in [0, 1] with last digit 5 that round(score, 3) rounds
\* up: those whose binary float lies above the decimal tie, and the exact ties
\* whose lower neighbour is odd
RoundsUp ==
    {
     5, 15, 25, 35, 85, 105, 125, 145, 165, 175, 205, 235, 245, 275, 285, 315,
     325, 335, 345, 395, 405, 415, 425, 475, 485, 495, 505, 555, 565, 575, 585, 635,
     645, 655, 665, 675, 685, 695, 785, 795, 805, 815, 825, 835, 845, 855, 945, 955,
     965, 975, 985, 995, 1005, 1015, 1095, 1105, 1115, 1125, 1135, 1145, 1155, 1165, 1255, 1265,
     1275, 1285, 1295, 1305, 1315, 1325, 1335, 1345, 1355, 1365, 1375, 1385, 1395, 1405, 1565, 1575,
     1585, 1595, 1605, 1615, 1625, 1635, 1645, 1655, 1665, 1675, 1685, 1695, 1705, 1715, 1875, 1885,
     1895, 1905, 1915, 1925, 1935, 1945, 1955, 1965, 1975, 1985, 1995, 2005, 2015, 2025, 2195, 2205,
     2215, 2225, 2235, 2245, 2255, 2265, 2275, 2285, 2295, 2305, 2315, 2325, 2335, 2505, 2515, 2525,
     2535, 2545, 2555, 2565, 2575, 2585, 2595, 2605, 2615, 2625, 2635, 2645, 2655, 2665, 2675, 2685,
     2695, 2705, 2715, 2725, 2735, 2745, 2755, 2765, 2775, 2785, 2795, 2805, 3135, 3145, 3155, 3165,
     3175, 3185, 3195, 3205, 3215, 3225, 3235, 3245, 3255, 3265, 3275, 3285, 3295, 3305, 3315, 3325,
     3335, 3345, 3355, 3365, 3375, 3385, 3395, 3405, 3415, 3425, 3435, 3755, 3765, 3775, 3785, 3795,
     3805, 3815, 3825, 3835, 3845, 3855, 3865, 3875, 3885, 3895, 3905, 3915, 3925, 3935, 3945, 3955,
     3965, 3975, 3985, 3995, 4005, 4015, 4025, 4035, 4045, 4055, 4375, 4385, 4395, 4405, 4415, 4425,
     4435, 4445, 4455, 4465, 4475, 4485, 4495, 4505, 4515, 4525, 4535, 4545, 4555, 4565, 4575, 4585,
     4595, 4605, 4615, 4625, 4635, 4645, 4655, 4665, 4675, 4685, 5635, 5645, 5655, 5665, 5675, 5685,
     5695, 5705, 5715, 5725, 5735, 5745, 5755, 5765, 5775, 5785, 5795, 5805, 5815, 5825, 5835, 5845,
     5855, 5865, 5875, 5885, 5895, 5905, 5915, 5925, 5935, 5945, 5955, 5965, 5975, 5985, 5995, 6005,
     6015, 6025, 6035, 6045, 6055, 6065, 6075, 6085, 6095, 6105, 6115, 6125, 6135, 6145, 6155, 6165,
     6175, 6185, 6195, 6205, 6215, 6225, 6235, 6245, 6875, 6885, 6895, 6905, 6915, 6925, 6935, 6945,
     6955, 6965, 6975, 6985, 6995, 7005, 7015, 7025, 7035, 7045, 7055, 7065, 7075, 7085, 7095, 7105,
     7115, 7125, 7135, 7145, 7155, 7165, 7175, 7185, 7195, 7205, 7215, 7225, 7235, 7245, 7255, 7265,
     7275, 7285, 7295, 7305, 7315, 7325, 7335, 7345, 7355, 7365, 7375, 7385, 7395, 7405, 7415, 7425,
     7435, 7445, 7455, 7465, 7475, 7485, 7495, 8135, 8145, 8155, 8165, 8175, 8185, 8195, 8205, 8215,
     8225, 8235, 8245, 8255, 8265, 8275, 8285, 8295, 8305, 8315, 8325, 8335, 8345, 8355, 8365, 8375,
     8385, 8395, 8405, 8415, 8425, 8435, 8445, 8455, 8465, 8475, 8485, 8495, 8505, 8515, 8525, 8535,
     8545, 8555, 8565, 8575, 8585, 8595, 8605, 8615, 8625, 8635, 8645, 8655, 8665, 8675, 8685, 8695,
     8705, 8715, 8725, 8735, 8745, 9375, 9385, 9395, 9405, 9415, 9425, 9435, 9445, 9455, 9465, 9475,
     9485, 9495, 9505, 9515, 9525, 9535, 9545, 9555, 9565, 9575, 9585, 9595, 9605, 9615, 9625, 9635,
     9645, 9655, 9665, 9675, 9685, 9695, 9705, 9715, 9725, 9735, 9745, 9755, 9765, 9775, 9785, 9795,
     9805, 9815, 9825, 9835, 9845, 9855, 9865, 9875, 9885, 9895, 9905, 9915, 9925, 9935, 9945, 9955,
     9965, 9975, 9985, 9995
    }

\* round(score, 3); a score in [0, 1] is counted in ten-thousandths, the rounded
\* score in thousandths
round3(score) ==
    (score \div 10)
        + (IF score % 10 > 5 \/ (score % 10 = 5 /\ score \in RoundsUp) THEN 1 ELSE 0)

\* the (ent, cui, score) triples in the order the two nested loops visit them
RECURSIVE KbPairs(_, _)
KbPairs(ents, i) ==
    IF i > Len(ents) THEN <<>>
    ELSE [k \in 1..Len(ents[i].kb_ents) |->
             [text |-> ents[i].text, cui |-> ents[i].kb_ents[k][1], score |-> ents[i].kb_ents[k][2]]]
         \o KbPairs(ents, i + 1)

RECURSIVE UmlsRows(_, _, _)
UmlsRows(pairs, i, rows) ==
    IF i > Len(pairs) THEN Ok(rows)
    ELSE IF pairs[i].cui \notin DOMAIN cui_to_entity THEN Raise("KeyError")
    ELSE UmlsRows(pairs, i + 1,
            Append(rows, [Text |-> pairs[i].text,
                          CUI |-> pairs[i].cui,
                          Name |-> cui_to_entity[pairs[i].cui].preferred_name,
                          Type |-> join(Str(", "), cui_to_entity[pairs[i].cui].types),
                          Score |-> round3(pairs[i].score)]))

umls_table(doc) == UmlsRows(KbPairs(doc.ents, 1), 1, <<>>)

-----------------------------------------------------------------------------
(* load_nlp and the pipeline *)

\* pipe names of spacy.load("en_core_sci_sm")
BasePipes == <<"tok2vec", "tagger", "attribute_ruler", "lemmatizer", "parser", "ner">>

Has(names, x) == \E i \in 1..Len(names) : names[i] = x

NoNlp == [loaded |-> FALSE, id |-> 0, pipe_names |-> <<>>]

\* the body of load_nlp, run for the id-th time
LoadNlpBody(id) ==
    LET names0 == BasePipes
        names1 == IF ~Has(names0, "sentencizer") THEN <<"sentencizer">> \o names0 ELSE names0
        names2 == IF ~Has(names1, "entity_linker") THEN Append(names1, "entity_linker") ELSE names1
    IN  [loaded |-> TRUE, id |-> id, pipe_names |-> names2]

\* @st.cache_resource: the body runs only when the cache holds nothing
load_nlp_uncached(cache, count) == [nlp |-> LoadNlpBody(count + 1), loads |-> count + 1]
load_nlp(cache, count) ==
    IF cache.loaded THEN [nlp |-> cache, loads |-> count]
    ELSE [nlp |-> LoadNlpBody(count + 1), loads |-> count + 1]

\* nlp(text): the analysis the pipeline returns for the text
nlp(text) == [sents |-> text.sents, ents |-> text.ents]

-----------------------------------------------------------------------------
(* The script, top to bottom *)

NoFile == [present |-> FALSE]

EmptyRun ==
    [display |-> "none", error |-> "", nlp_id |-> 0, text |-> <<>>,
     bladder |-> <<>>, recur |-> <<>>, regex |-> <<>>, umls |-> <<>>,
     table |-> <<>>, processed |-> <<>>]

\* the PDF branch with a file uploaded
PdfBranch(file) ==
    LET ex == extract_text_from_pdf(file)
        doc == nlp([sents |-> file.analysis.sents, ents |-> file.analysis.ents])
        shown == [EmptyRun EXCEPT !.text = ex.val,
                                  !.bladder = sentence_hits(doc, BLADDER_KWS),
                                  !.recur = sentence_hits(doc, RECUR_KWS),
                                  !.regex = regex_hits(ex.val, REGEX_PATTERNS)]
        df_umls == umls_table(doc)
    IN  IF ex.exc # "" THEN [EmptyRun EXCEPT !.display = "exception", !.error = ex.exc]
        ELSE IF df_umls.exc # ""
             THEN [shown EXCEPT !.display = "exception", !.error = df_umls.exc, !.text = <<>>]
             ELSE [shown EXCEPT !.display = "analysis", !.umls = df_umls.val]

\* if bladder or recur
HasMatch_and(bladder, recur) == Len(bladder) > 0 /\ Len(recur) > 0
HasMatch(bladder, recur) == Len(bladder) > 0 \/ Len(recur) > 0

\* the loop over df.head(n).iterrows(), from row i on
RECURSIVE ScanLoop(_, _, _, _)
ScanLoop(rows, i, results, seen) ==
    IF i > Len(rows) THEN [error |-> "", results |-> results, processed |-> seen]
    ELSE IF "text" \notin DOMAIN rows[i]
         THEN [error |-> "KeyError", results |-> results, processed |-> seen]
    ELSE LET doc == nlp(rows[i]["text"])
             bladder == sentence_hits(doc, BLADDER_KWS)
             recur == sentence_hits(doc, RECUR_KWS)
         IN  IF HasMatch(bladder, recur)
             THEN IF "patient_filename" \notin DOMAIN rows[i]
                  THEN [error |-> "KeyError", results |-> results, processed |-> Append(seen, i)]
                  ELSE ScanLoop(rows, i + 1,
                           Append(results,
                                  [patient_filename |-> rows[i]["patient_filename"],
                                   bladder_mentions |-> join(Str("; "), bladder),
                                   recurrence_mentions |-> join(Str("; "), recur)]),
                           Append(seen, i))
             ELSE ScanLoop(rows, i + 1, results, Append(seen, i))

\* df.head(n)
head_all(rows, k) == rows
head(rows, k) == SubSeq(rows, 1, IF k < Len(rows) THEN k ELSE Len(rows))

\* the CSV branch with a file uploaded
CsvBranch(file, k) ==
    LET scan == ScanLoop(head(file.rows, k), 1, <<>>, <<>>)
    IN  IF scan.error # ""
        THEN [EmptyRun EXCEPT !.display = "exception", !.error = scan.error,
                              !.processed = scan.processed]
        ELSE [EmptyRun EXCEPT !.display = IF Len(scan.results) = 0 THEN "no_matches" ELSE "results",
                              !.table = scan.results,
                              !.processed = scan.processed]

Prompt == [EmptyRun EXCEPT !.display = "prompt"]

\* one run of the script below line 22
Script(utype, pdffile, csvfile, k) ==
    IF utype = "PDF report"
    THEN IF pdffile.present THEN PdfBranch(pdffile) ELSE Prompt
    ELSE IF csvfile.present THEN CsvBranch(csvfile, k) ELSE Prompt

-----------------------------------------------------------------------------
(* Inputs *)

MaxRows == 2
MaxPages == 3
MaxKws == 2
MaxSents == 2
MaxChunks == 3
MaxEnts == 2

SliderMin == 1
SliderMax == 20
SliderDefault == 5

\* the slider positions tried
SliderStops == {SliderMin, 2, SliderDefault, SliderMax}

SeqsUpTo(S, k) == UNION {[1..m -> S] : m \in 0..k}

\* report bodies of the CSV, each with the pipeline's segmentation of it
TextPool ==
    { [sents |-> <<Str("Patient has bladder cancer with recurrence.")>>, ents |-> <<>>],
      [sents |-> <<Str("Unremarkable colon biopsy.")>>, ents |-> <<>>],
      [sents |-> <<Str(" Residual TUMOR seen."), Str("\nNo invasion.")>>, ents |-> <<>>] }

FileNames == <<"p1", "p2", "p3", "p4", "p5">>

ColumnSets == { {"patient_filename", "text"}, {"text"}, {"patient_filename"} }

CsvRow(cols, i, t) == [c \in cols |-> IF c = "text" THEN t ELSE FileNames[i]]

CsvFiles ==
    { [present |-> TRUE, columns |-> cols, rows |-> [i \in DOMAIN ts |-> CsvRow(cols, i, ts[i])]] :
        cols \in ColumnSets, ts \in SeqsUpTo(TextPool, MaxRows) }

Page(t) == [none |-> FALSE, str |-> Str(t)]
NonePage == [none |-> TRUE, str |-> <<>>]

Ent(t, pairs) == [text |-> Str(t), kb_ents |-> pairs]

AnalysisPool ==
    { [sents |-> <<Str("Stage pT2 tumor of the bladder.")>>,
       ents |-> <<Ent("tumor of the bladder", << <<"C0005684", 9876>>, <<"C0027651", 7121>> >>)>>],
      [sents |-> <<Str("Stage T1N0M0."), Str("No residual disease.")>>, ents |-> <<>>],
      [sents |-> <<Str("Unremarkable.")>>,
       ents |-> <<Ent("biopsy", << <<"C0027651", 8004>>, <<"C9999999", 7003>> >>)>>] }

PdfPagesPool ==
    { <<Page("Stage pT2 tumor of the bladder.")>>,
      <<Page("Stage T1N0M0."), NonePage, Page("No residual disease.")>> }

PdfFiles ==
    { [present |-> TRUE, opens |-> FALSE, pages |-> <<>>, analysis |-> [sents |-> <<>>, ents |-> <<>>]] }
    \cup { [present |-> TRUE, opens |-> TRUE, pages |-> ps, analysis |-> a] :
              ps \in PdfPagesPool, a \in AnalysisPool }

\* inputs of the helpers called on their own
MaxPairs == 2

\* 233 is e with acute, 201 its capital, 8195 the em space
KwPool == {Str("tumor"), Str("Tumor"), Str("bladder"), Str(""), <<233>>}
SentPool ==
    {Str("Bladder tumor."), Str("tumorous growth"), Str(" no finding\f\n"), Str("TUMOR"),
     Str("CAF") \o <<201, 8195>>}

Chunks == {Str("T1N0M0"), Str("pt2"), Str("T5N0M0"), Str(". "), Str("!\n "), Str("?"), Str("x"), Str("\f"), <<8195>>}

RECURSIVE Concat(_)
Concat(parts) == IF Len(parts) = 0 THEN <<>> ELSE parts[1] \o Concat(Tail(parts))

PagePool == {NonePage, Page(""), Page("a"), Page("b\nc")}

PairPool == { <<"C0005684", 9876>>, <<"C0027651", 1235>>, <<"C9999999", 7003>> }
EntPool == { Ent("mass", ps) : ps \in SeqsUpTo(PairPool, MaxPairs) }

NoCall == [op |-> "none"]
NoRet == [done |-> FALSE, exc |-> "", val |-> <<>>]
Returned(r) == [done |-> TRUE, exc |-> r.exc, val |-> r.val]

-----------------------------------------------------------------------------
(* The application: every widget change reruns the script *)

Init ==
    /\ nlp_cache = NoNlp
    /\ loads = 0
    /\ upload_type = "PDF report"
    /\ pdf = NoFile
    /\ csv_file = NoFile
    /\ n = SliderDefault
    /\ run = EmptyRun
    /\ prev_display = "none"
    /\ arg = NoCall
    /\ ret = NoRet

\* lines 21-110 with the widgets as given
RunScript(utype, pdffile, csvfile, k) ==
    LET l == load_nlp(nlp_cache, loads)
    IN  /\ nlp_cache' = l.nlp
        /\ loads' = l.loads
        /\ run' = [Script(utype, pdffile, csvfile, k) EXCEPT !.nlp_id = l.nlp.id]
        /\ prev_display' = run.display
        /\ UNCHANGED <<arg, ret>>

\* the page is loaded or rerun with the widgets as they are
Rerun ==
    /\ RunScript(upload_type, pdf, csv_file, n)
    /\ UNCHANGED <<upload_type, pdf, csv_file, n>>

\* st.radio: the widgets of the branch left behind are dropped
SelectUploadType ==
    \E t \in {"PDF report", "TCGA CSV sample"} :
        /\ t # upload_type
        /\ upload_type' = t
        /\ pdf' = NoFile
        /\ csv_file' = NoFile
        /\ n' = SliderDefault
        /\ RunScript(t, NoFile, NoFile, SliderDefault)

UploadPdf ==
    \E f \in PdfFiles :
        /\ upload_type = "PDF report"
        /\ pdf' = f
        /\ RunScript(upload_type, f, csv_file, n)
        /\ UNCHANGED <<upload_type, csv_file, n>>

UploadCsv ==
    \E f \in CsvFiles :
        /\ upload_type = "TCGA CSV sample"
        /\ csv_file' = f
        /\ RunScript(upload_type, pdf, f, n)
        /\ UNCHANGED <<upload_type, pdf, n>>

\* the uploaded file is removed: the slider is no longer rendered
RemoveFile ==
    /\ pdf.present \/ csv_file.present
    /\ pdf' = NoFile
    /\ csv_file' = NoFile
    /\ n' = SliderDefault
    /\ RunScript(upload_type, NoFile, NoFile, SliderDefault)
    /\ UNCHANGED upload_type

\* st.slider, rendered only with a CSV uploaded
MoveSlider ==
    \E k \in SliderStops :
        /\ upload_type = "TCGA CSV sample"
        /\ csv_file.present
        /\ k # n
        /\ n' = k
        /\ RunScript(upload_type, pdf, csv_file, k)
        /\ UNCHANGED <<upload_type, pdf, csv_file>>

Next == Rerun \/ SelectUploadType \/ UploadPdf \/ UploadCsv \/ RemoveFile \/ MoveSlider

Spec == Init /\ [][Next]_vars

-----------------------------------------------------------------------------
(* The helpers called on their own, on every input of a bounded set *)

Idle ==
    /\ nlp_cache = NoNlp
    /\ loads = 0
    /\ upload_type = "PDF report"
    /\ pdf = NoFile
    /\ csv_file = NoFile
    /\ n = SliderDefault
    /\ run = EmptyRun
    /\ prev_display = "none"
    /\ ret = NoRet

StaysIdle == UNCHANGED <<nlp_cache, loads, upload_type, pdf, csv_file, n, run, prev_display, arg>>

InitHits ==
    /\ Idle
    /\ \E ss \in SeqsUpTo(SentPool, MaxSents), ks \in SeqsUpTo(KwPool, MaxKws) :
          arg = [op |-> "sentence_hits", doc |-> [sents |-> ss, ents |-> <<>>], keywords |-> ks]

CallSentenceHits ==
    /\ arg.op = "sentence_hits" /\ ~ret.done
    /\ ret' = Returned(Ok(sentence_hits(arg.doc, arg.keywords)))
    /\ StaysIdle

SpecHits == InitHits /\ [][CallSentenceHits]_vars

InitRegex ==
    /\ Idle
    /\ \E cs \in SeqsUpTo(Chunks, MaxChunks) : arg = [op |-> "regex_hits", text |-> Concat(cs)]

CallRegexHits ==
    /\ arg.op = "regex_hits" /\ ~ret.done
    /\ ret' = Returned(Ok(regex_hits(arg.text, REGEX_PATTERNS)))
    /\ StaysIdle

SpecRegex == InitRegex /\ [][CallRegexHits]_vars

InitPdf ==
    /\ Idle
    /\ \E ps \in SeqsUpTo(PagePool, MaxPages), o \in BOOLEAN :
          /\ ~o => ps = <<>>
          /\ arg = [op |-> "extract_text_from_pdf", file |-> [opens |-> o, pages |-> ps]]

CallExtractText ==
    /\ arg.op = "extract_text_from_pdf" /\ ~ret.done
    /\ ret' = Returned(extract_text_from_pdf(arg.file))
    /\ StaysIdle

SpecPdf == InitPdf /\ [][CallExtractText]_vars

InitUmls ==
    /\ Idle
    /\ \E es \in SeqsUpTo(EntPool, MaxEnts) :
          arg = [op |-> "umls_table", doc |-> [sents |-> <<>>, ents |-> es]]

CallUmlsTable ==
    /\ arg.op = "umls_table" /\ ~ret.done
    /\ ret' = Returned(umls_table(arg.doc))
    /\ StaysIdle

SpecUmls == InitUmls /\ [][CallUmlsTable]_vars

-----------------------------------------------------------------------------
(* Properties *)

\* how many members of I are at most i
Rank(I, i) == Cardinality({j \in I : j <= i})

\* seq lists, in order, f[i] for the i in I
ListsInOrder(seq, I, f(_)) ==
    /\ Len(seq) = Cardinality(I)
    /\ \A i \in I : seq[Rank(I, i)] = f(i)

AllLowercase(ks) == \A j \in 1..Len(ks) : ks[j] = lower(ks[j])

HitsCalled == arg.op = "sentence_hits" /\ ret.done

\* C1 (as claimed): for every keyword list K, sentence_hits returns, in input
\* order, the sentences S such that some k in K, lowercased, is a substring of
\* the lowercased text of S; an empty K yields an empty result.
C1_Original ==
    HitsCalled =>
        LET ss == arg.doc.sents
            ks == arg.keywords
            I == {i \in 1..Len(ss) : \E j \in 1..Len(ks) : In(lower(ks[j]), lower(ss[i]))}
            Stripped(i) == strip(ss[i])
        IN  /\ ListsInOrder(ret.val, I, Stripped)
            /\ Len(ks) = 0 => ret.val = <<>>

\* C1 (amended): for every keyword list K whose keywords are already lowercase,
\* sentence_hits returns, in input order, the stripped text of exactly the
\* sentences S such that some k in K is a substring of the lowercased text of
\* S; an empty K yields an empty result.
C1_LowercaseKeywordHits ==
    (HitsCalled /\ AllLowercase(arg.keywords)) =>
        LET ss == arg.doc.sents
            ks == arg.keywords
            I == {i \in 1..Len(ss) : \E j \in 1..Len(ks) : In(ks[j], lower(ss[i]))}
            Stripped(i) == strip(ss[i])
        IN  /\ ListsInOrder(ret.val, I, Stripped)
            /\ Len(ks) = 0 => ret.val = <<>>

C1_Witness ==
    /\ HitsCalled
    /\ arg.keywords = <<Str("bladder"), Str("tumor")>>
    /\ arg.doc.sents = <<Str(" no finding\f\n"), Str("TUMOR")>>
    /\ ret.val = <<Str("TUMOR")>>

\* the gaps of the punctuation split: a maximal run of whitespace i..j that
\* follows '.', '!' or '?'
Gaps(text) ==
    {g \in (1..Len(text)) \X (1..Len(text)) :
        /\ 1 < g[1] /\ g[1] <= g[2]
        /\ Char(text, g[1] - 1) \in {46, 33, 63}
        /\ \A k \in g[1]..g[2] : Char(text, k) \in Whitespace
        /\ g[2] = Len(text) \/ Char(text, g[2] + 1) \notin Whitespace}

Kth(S, k) == CHOOSE x \in S : Rank(S, x) = k

\* the k-th sentence of the punctuation split
Segment(text, k) ==
    SubSeq(text, Kth({1} \cup {g[2] + 1 : g \in Gaps(text)}, k),
                 Kth({g[1] - 1 : g \in Gaps(text)} \cup {Len(text)}, k))

\* the lowercased strings that T[0-4]N[0-3]M[0-1] and pT[0-4] match
StageStrings ==
    {Str("t") \o <<a>> \o Str("n") \o <<b>> \o Str("m") \o <<c>> : a \in 48..52, b \in 48..51, c \in 48..49}
    \cup {Str("pt") \o <<a>> : a \in 48..52}

HasStage(s) == LET low == lower(s) IN \E m \in StageStrings : In(m, low)

RegexCalled == arg.op = "regex_hits" /\ ret.done

\* C2: regex_hits(T, REGEX_PATTERNS) returns, in source order, exactly those
\* sentences of the punctuation split of T (split at whitespace that follows
\* '.', '!' or '?') that contain a case-insensitive match of
\* T[0-4]N[0-3]M[0-1] or pT[0-4], and no other sentence.
C2_RegexHits ==
    RegexCalled =>
        LET text == arg.text
            count == Cardinality(Gaps(text)) + 1
            I == {k \in 1..count : HasStage(Segment(text, k))}
            Seg(k) == Segment(text, k)
        IN  ListsInOrder(ret.val, I, Seg)

C2_Witness ==
    /\ RegexCalled
    /\ arg.text = Str("T5N0M0!\n pt2")
    /\ re_split(arg.text) = <<Str("T5N0M0!"), Str("pt2")>>
    /\ ret.val = <<Str("pt2")>>

\* the text page i contributes
Contribution(pages, i) == IF pages[i].none THEN <<>> ELSE pages[i].str

\* where the text of page i starts in the result, less one
RECURSIVE Offset(_, _)
Offset(pages, i) ==
    IF i = 1 THEN 0 ELSE Offset(pages, i - 1) + Len(Contribution(pages, i - 1)) + 1

ExtractCalled == arg.op = "extract_text_from_pdf" /\ ret.done /\ arg.file.opens

\* C6: for a document of n pages extract_text_from_pdf does not fail and returns
\* the page texts in page order, an unextractable page contributing the empty
\* string, with one newline between consecutive pages: n - 1 separators.
C6_PagesJoined ==
    ExtractCalled =>
        LET pages == arg.file.pages
            pn == Len(pages)
        IN  /\ ret.exc = ""
            /\ Len(ret.val) = IF pn = 0 THEN 0 ELSE Offset(pages, pn + 1) - 1
            /\ \A i \in 1..pn :
                  SubSeq(ret.val, Offset(pages, i) + 1,
                         Offset(pages, i) + Len(Contribution(pages, i))) = Contribution(pages, i)
            /\ \A i \in 2..pn : Char(ret.val, Offset(pages, i)) = 10

C6_Witness ==
    /\ ExtractCalled
    /\ arg.file.pages = <<Page("a"), NonePage, Page("b\nc")>>
    /\ ret.val = Str("a\n\nb\nc")

UmlsCalled == arg.op = "umls_table" /\ ret.done

\* C3: for every entity list umls_table completes without an exception and
\* returns exactly one row per (entity, linked concept pair) whose concept id is
\* in the knowledge base; a pair whose concept id is absent is skipped.
C3_AbsentConceptSkipped ==
    UmlsCalled =>
        LET pairs == KbPairs(arg.doc.ents, 1)
            I == {i \in 1..Len(pairs) : pairs[i].cui \in DOMAIN cui_to_entity}
            Cui(i) == pairs[i].cui
        IN  /\ ret.exc = ""
            /\ Len(ret.val) = Cardinality(I)
            /\ \A i \in I : ret.val[Rank(I, i)].CUI = Cui(i)

CsvShown == upload_type = "TCGA CSV sample" /\ csv_file.present
Scanned == CsvShown /\ run.display \in {"no_matches", "results"}
WellFormed == csv_file.columns = {"patient_filename", "text"}

\* how many rows the limit lets through
PrefixLen == IF n < Len(csv_file.rows) THEN n ELSE Len(csv_file.rows)

\* row i has a sentence that contains a bladder or a recurrence keyword
UnitMatches(i) ==
    /\ "text" \in DOMAIN csv_file.rows[i]
    /\ \E s \in 1..Len(csv_file.rows[i]["text"].sents) :
          \E kws \in {BLADDER_KWS, RECUR_KWS} : \E j \in 1..Len(kws) :
              In(kws[j], lower(csv_file.rows[i]["text"].sents[s]))

MatchingUnits == {i \in 1..PrefixLen : UnitMatches(i)}

\* C4: in a tabular scan a result row is accumulated for a unit iff a matcher
\* returned a non-empty list for it: a scan of a file with both columns
\* completes, and the table of a completed scan has exactly one row for each
\* processed unit with at least one match and none for a unit with no match.
C4_RowIffMatch ==
    /\ (CsvShown /\ WellFormed) => Scanned
    /\ Scanned =>
          /\ Len(run.table) = Cardinality(MatchingUnits)
          /\ \A i \in MatchingUnits :
                run.table[Rank(MatchingUnits, i)].patient_filename
                    = csv_file.rows[i]["patient_filename"]

C4_Witness ==
    /\ Scanned
    /\ run.processed = <<1, 2>>
    /\ UnitMatches(1) /\ ~UnitMatches(2)
    /\ Len(run.table) = 1
    /\ run.table[1].patient_filename = "p1"

\* C5: when the uploaded file lacks the column patient_filename or the column
\* text, the load fails before any row is processed: no unit is run through the
\* pipeline and no results table is produced, whatever the rows contain.
C5_MissingColumnBlocks ==
    (CsvShown /\ ~WellFormed) =>
        /\ run.display = "exception"
        /\ run.processed = <<>>
        /\ run.table = <<>>

\* C7: over any sequence of script runs the pipeline is initialized at most
\* once; every run uses that one pipeline object, configured as the first load
\* left it.
C7_PipelineLoadedOnce ==
    /\ loads <= 1
    /\ run.display # "none" =>
          /\ loads = 1
          /\ nlp_cache.loaded /\ nlp_cache.id = 1
          /\ run.nlp_id = 1
          /\ nlp_cache.pipe_names =
                <<"sentencizer", "tok2vec", "tagger", "attribute_ruler", "lemmatizer",
                  "parser", "ner", "entity_linker">>

C7_Witness ==
    /\ prev_display = "results"
    /\ run.display = "results"
    /\ loads = 1 /\ run.nlp_id = 1

TabularMode == upload_type = "TCGA CSV sample" /\ run.display # "none"

\* C8: in tabular mode every script run ends in exactly one of three states,
\* prompt (no file uploaded, no scan run), no matches found (a scan ran with
\* zero result rows) or populated results (a scan ran with at least one result
\* row); no matches found is shown iff a scan ran and produced zero rows, never
\* when no scan has run.
C8_ThreeStates ==
    TabularMode =>
        /\ run.display \in {"prompt", "no_matches", "results"}
        /\ run.display = "prompt" <=> ~csv_file.present
        /\ run.display = "no_matches" <=> (csv_file.present /\ run.table = <<>>)
        /\ run.display = "results" <=> (csv_file.present /\ run.table # <<>>)

\* every linked concept id of the document is in the knowledge base
AllConceptsKnown(file) ==
    \A e \in 1..Len(file.analysis.ents) : \A k \in 1..Len(file.analysis.ents[e].kb_ents) :
        file.analysis.ents[e].kb_ents[k][1] \in DOMAIN cui_to_entity

FileShown == (upload_type = "PDF report" /\ pdf.present) \/ CsvShown

ValidInput ==
    \/ upload_type = "PDF report" /\ pdf.present /\ pdf.opens /\ AllConceptsKnown(pdf)
    \/ CsvShown /\ WellFormed

\* C9: a scan that hits a failure path (missing column, document that cannot be
\* opened, concept id absent from the knowledge base) ends showing a message
\* for the failure, not the display of a completed scan (the page of an
\* uncaught exception is taken for such a message), and the application stays
\* ready: a scan on valid input, also right after a failed one, completes.
C9_FailureShowsMessage ==
    /\ (FileShown /\ ~ValidInput) => run.display \notin {"analysis", "no_matches", "results"}
    /\ ValidInput => run.display \in {"analysis", "no_matches", "results"}

\* C10: a tabular scan with limit N in 1..20 (default 5) over R rows hands the
\* pipeline the first min(N, R) rows, each once and in file order (all of them
\* when the scan completes); the result rows are a subsequence of that prefix,
\* at most one per unit, and no row beyond the prefix contributes.
C10_PrefixInOrder ==
    /\ n \in 1..20
    /\ ~CsvShown => n = 5
    /\ CsvShown =>
          /\ Len(run.processed) <= PrefixLen
          /\ \A k \in 1..Len(run.processed) : run.processed[k] = k
          /\ Scanned => Len(run.processed) = PrefixLen
          /\ WellFormed => Scanned
          /\ \E f \in [1..Len(run.table) -> 1..PrefixLen] :
                /\ \A k \in 1..Len(run.table) :
                      run.table[k].patient_filename = csv_file.rows[f[k]]["patient_filename"]
                /\ \A k \in 2..Len(run.table) : f[k - 1] < f[k]

C10_Witness ==
    /\ Scanned
    /\ n = 1
    /\ Len(csv_file.rows) = 2
    /\ UnitMatches(2)
    /\ run.processed = <<1>>
    /\ Len(run.table) = 1

====
